---- MODULE Spec2Model ----
(***************************************************************************)
(* LogFinder (src/log_finder.py): search of log files inside nested tar    *)
(* archives.  Strings are sequences of one-character strings, so that the  *)
(* suffix tests, the regular expressions and the substring search of the   *)
(* program are computed on characters.                                     *)
(***************************************************************************)
EXTENDS Integers, Sequences, FiniteSets, TLC

VARIABLES
    \* ---- main(): one run of the program
    pc,                    \* position of main()
    input_kind,            \* what input_path is: "tar", "bad_tar", "dir", "invalid"
    input_plain,           \* plain files of the input, outside every nested .tar.gz
    input_archives,        \* nested .tar.gz archives of the input, in walk order
    search_string,         \* args.search_string
    use_timestamp_format,  \* args.timestamp_format
    output_dir,            \* the output directory on disk
    temp_dir,              \* the TemporaryDirectory on disk
    tar_gz_files,          \* indexes of the archives still to extract
    log_files,
    compressed_log_files,
    all_log_files,
    search_patterns,
    search_index,          \* the file of all_log_files the search loop is at
    results,               \* dict rel_path -> matches, in insertion order
    files_with_matches,
    total_matches,
    report,                \* result.txt: <<>> while not written
    \* ---- find_log_files / find_compressed_log_files / is_compressed_file alone
    cl_dir, cl_logs, cl_comp, cl_done,
    \* ---- is_timestamp_format / parse_timestamp_input alone
    ts_s, ts_tf, ts_patterns, ts_done,
    \* ---- search_in_file alone
    sf_path, sf_file, sf_pats, sf_matches, sf_done

mainVars == <<pc, input_kind, input_plain, input_archives, search_string,
              use_timestamp_format, output_dir, temp_dir, tar_gz_files, log_files,
              compressed_log_files, all_log_files, search_patterns, search_index, results,
              files_with_matches, total_matches, report>>
clVars == <<cl_dir, cl_logs, cl_comp, cl_done>>
tsVars == <<ts_s, ts_tf, ts_patterns, ts_done>>
sfVars == <<sf_path, sf_file, sf_pats, sf_matches, sf_done>>
vars == <<mainVars, clVars, tsVars, sfVars>>

(***************************************************************************)
(* Bounds of the model.                                                    *)
(***************************************************************************)
MaxLines == 3          \* lines of a file given to search_in_file alone
MaxPatterns == 2       \* patterns given to search_in_file alone
MaxTokens == 3         \* tokens of a file name given to the classifiers
MaxDirFiles == 2       \* files of a directory given to the classifiers
MaxArchives == 2       \* nested .tar.gz archives of one input

(***************************************************************************)
(* Strings.                                                                *)
(***************************************************************************)
Digits == {"0", "1", "2", "3", "4", "5", "6", "7", "8", "9"}
Whitespace == {" ", "\t", "\n", "\r"}
NL == "\n"

Range(s) == {s[i] : i \in 1..Len(s)}

\* str.endswith(suffix)
EndsWith(s, suffix) ==
    /\ Len(s) >= Len(suffix)
    /\ SubSeq(s, Len(s) - Len(suffix) + 1, Len(s)) = suffix

\* the literal p occurs in s at (1-based) position i
OccursAt(s, i, p) ==
    /\ i >= 1
    /\ i + Len(p) - 1 <= Len(s)
    /\ SubSeq(s, i, i + Len(p) - 1) = p

\* Python's "pattern in line"
Contains(pattern, line) ==
    \E i \in 1..(Len(line) - Len(pattern) + 1) : OccursAt(line, i, pattern)

\* every character of s[from..to] is matched by \d
AllDigits(s, from, to) == \A k \in from..to : s[k] \in Digits

\* the regular expression's $ (no MULTILINE): the end of the string, or just
\* before a newline that ends the string
AtDollar(s, last) ==
    \/ last = Len(s)
    \/ last = Len(s) - 1 /\ s[Len(s)] = NL

\* .* from the start of the string up to position i - 1: any characters but newlines
DotStarTo(s, i) == \A k \in 1..(i - 1) : s[k] # NL

RECURSIVE LStrip(_)
LStrip(s) ==
    IF s # <<>> /\ Head(s) \in Whitespace THEN LStrip(Tail(s)) ELSE s

RECURSIVE RStrip(_)
RStrip(s) ==
    IF s # <<>> /\ s[Len(s)] \in Whitespace THEN RStrip(SubSeq(s, 1, Len(s) - 1)) ELSE s

\* str.strip()
Strip(s) == RStrip(LStrip(s))

DotLog == <<".", "l", "o", "g">>
DotGz == <<".", "g", "z">>
DotTarGz == <<".", "t", "a", "r", ".", "g", "z">>
DotLogDotGzUnderscore == <<".", "l", "o", "g", ".", "g", "z", "_">>
DotLogUnderscore == <<".", "l", "o", "g", "_">>

(***************************************************************************)
(* File classification.                                                    *)
(***************************************************************************)
\* re.match(r'.*\.log\.gz_\d+', file)
MatchRotatedGz(file) ==
    \E i \in 1..Len(file) :
        /\ DotStarTo(file, i)
        /\ OccursAt(file, i, DotLogDotGzUnderscore)
        /\ i + 8 <= Len(file)
        /\ file[i + 8] \in Digits

\* re.match(r'.*\.log_\d+$', file)
MatchRotatedLog(file) ==
    \E i \in 1..Len(file) :
        /\ DotStarTo(file, i)
        /\ OccursAt(file, i, DotLogUnderscore)
        /\ \E last \in (i + 5)..Len(file) :
              /\ AllDigits(file, i + 5, last)
              /\ AtDollar(file, last)

\* the test of find_log_files on one file name
IsLogName(file) ==
    IF EndsWith(file, DotLog) /\ ~MatchRotatedGz(file)
    THEN TRUE
    ELSE MatchRotatedLog(file)

\* the test of find_compressed_log_files on one file name
IsCompressedLogName(file) ==
    \/ EndsWith(file, DotGz) /\ ~EndsWith(file, DotTarGz)
    \/ MatchRotatedGz(file)

\* directory: the file names of the tree in walk order
find_log_files(directory) == SelectSeq(directory, LAMBDA file : IsLogName(file))

find_compressed_log_files(directory) ==
    SelectSeq(directory, LAMBDA file : IsCompressedLogName(file))

is_compressed_file(filename) ==
    EndsWith(filename, DotGz) \/ MatchRotatedGz(filename)

(***************************************************************************)
(* Timestamp patterns.                                                     *)
(***************************************************************************)
\* \d{4}-\d{2}-\d{2}-\d{2}\.\d{2}\.\d{2}\.  at the start of s
TimestampHead(s) ==
    /\ Len(s) >= 20
    /\ AllDigits(s, 1, 4) /\ s[5] = "-"
    /\ AllDigits(s, 6, 7) /\ s[8] = "-"
    /\ AllDigits(s, 9, 10) /\ s[11] = "-"
    /\ AllDigits(s, 12, 13) /\ s[14] = "."
    /\ AllDigits(s, 15, 16) /\ s[17] = "."
    /\ AllDigits(s, 18, 19) /\ s[20] = "."

\* re.match(r'^\d{4}-\d{2}-\d{2}-\d{2}\.\d{2}\.\d{2}\.\d+$', search_string)
is_timestamp_format(s) ==
    /\ TimestampHead(s)
    /\ \E last \in 21..Len(s) : AllDigits(s, 21, last) /\ AtDollar(s, last)

\* the loop that removes duplicates while preserving order: a pattern is appended
\* unless it is already in unique_patterns, that is unless an earlier one equals it
Unique(patterns) ==
    LET kept == SelectSeq([i \in 1..Len(patterns) |-> i],
                          LAMBDA i : \A j \in 1..(i - 1) : patterns[j] # patterns[i])
    IN [k \in 1..Len(kept) |-> patterns[kept[k]]]

parse_timestamp_input(s) ==
    IF TimestampHead(s) /\ Len(s) >= 21 /\ s[21] \in Digits
    THEN LET year == SubSeq(s, 1, 4)
             month == SubSeq(s, 6, 7)
             day == SubSeq(s, 9, 10)
             hour == SubSeq(s, 12, 13)
             minute == SubSeq(s, 15, 16)
             second == SubSeq(s, 18, 19)
         IN Unique(<<s,
              year \o <<"-">> \o month \o <<"-">> \o day \o <<"T">>
                   \o hour \o <<":">> \o minute \o <<":">> \o second,
              year \o <<"-">> \o month \o <<"-">> \o day \o <<" ">>
                   \o hour \o <<".">> \o minute \o <<".">> \o second,
              year \o <<"-">> \o month \o <<"-">> \o day \o <<" ">>
                   \o hour \o <<":">> \o minute \o <<":">> \o second,
              year \o month \o day \o hour \o minute \o second,
              month \o <<"/">> \o day \o <<"/">> \o year \o <<" ">>
                   \o hour \o <<":">> \o minute \o <<":">> \o second>>)
    ELSE Unique(<<s>>)

\* main(): the search patterns, from the -tf flag
SearchPatterns(s, tf) ==
    IF tf /\ is_timestamp_format(s) THEN parse_timestamp_input(s)
    ELSE <<s>>

(***************************************************************************)
(* search_in_file.  A file is [lines, failAt]: its decoded text lines and  *)
(* the number of lines read before the read raises (0: the open or the     *)
(* first read raises; NoFail: the whole file is read).                     *)
(***************************************************************************)
NoFail == -1

\* the inner loop mutated: it goes on after a hit, so the last pattern wins
RECURSIVE FirstMatchNoBreak(_, _, _)
FirstMatchNoBreak(pats, line, j) ==
    IF j > Len(pats) THEN 0
    ELSE LET later == FirstMatchNoBreak(pats, line, j + 1)
         IN IF later # 0 THEN later
            ELSE IF Contains(pats[j], line) THEN j ELSE 0

\* for pattern in search_patterns: if pattern in line: ...; break
\* the index of the pattern recorded for the line, from pattern j on; 0: none
RECURSIVE FirstMatch(_, _, _)
FirstMatch(pats, line, j) ==
    IF j > Len(pats) THEN 0
    ELSE IF Contains(pats[j], line) THEN j
    ELSE FirstMatch(pats, line, j + 1)

\* the gzip.open branch
RECURSIVE ScanGz(_, _, _, _)
ScanGz(file, pats, line_num, matches) ==
    IF file.failAt = line_num - 1 THEN matches
    ELSE IF line_num > Len(file.lines) THEN matches
    ELSE LET line == file.lines[line_num]
             hit == FirstMatch(pats, line, 1)
         IN ScanGz(file, pats, line_num + 1,
                   IF hit = 0 THEN matches
                   ELSE Append(matches, <<line_num, Strip(line), pats[hit]>>))

\* the open branch
RECURSIVE ScanPlain(_, _, _, _)
ScanPlain(file, pats, line_num, matches) ==
    IF file.failAt = line_num - 1 THEN matches
    ELSE IF line_num > Len(file.lines) THEN matches
    ELSE LET line == file.lines[line_num]
             hit == FirstMatch(pats, line, 1)
         IN ScanPlain(file, pats, line_num + 1,
                      IF hit = 0 THEN matches
                      ELSE Append(matches, <<line_num, Strip(line), pats[hit]>>))

search_in_file(file_path, file, pats) ==
    IF is_compressed_file(file_path)
    THEN ScanGz(file, pats, 1, <<>>)
    ELSE ScanPlain(file, pats, 1, <<>>)

(***************************************************************************)
(* main(): the file system.  The extraction directory is flat: a file of   *)
(* it is known by its name, which is also its path relative to the         *)
(* directory.  Each file of it remembers where it came from: "top" (a      *)
(* member extracted_content/<name> of the top-level archive) or the index  *)
(* of the nested archive that wrote it last.                               *)
(***************************************************************************)
NoOutput == [exists |-> FALSE, files |-> {}, logs_dir |-> FALSE, extracted_logs |-> {}]
OldOutput == [exists |-> TRUE, files |-> {"old.txt"}, logs_dir |-> TRUE,
              extracted_logs |-> {<<"o", ".", "l", "o", "g">>}]
\* os.makedirs(output_dir); os.makedirs(extracted_dir)
Skeleton == [exists |-> TRUE, files |-> {}, logs_dir |-> TRUE, extracted_logs |-> {}]

EmptyDir == [n \in {} |-> 0]
NoTemp == [exists |-> FALSE, top |-> {}, extraction_dir |-> EmptyDir]


(***************************************************************************)
(* Inputs of the functions checked alone.                                  *)
(***************************************************************************)
SeqsUpTo(S, n) == UNION {[1..k -> S] : k \in 0..n}

RECURSIVE Flatten(_)
Flatten(tokens) ==
    IF tokens = <<>> THEN <<>> ELSE Head(tokens) \o Flatten(Tail(tokens))

NameTokens == {<<"a">>, DotLog, DotGz, <<".", "t", "a", "r">>, <<"_", "1">>,
               <<".", "l", "o", "g", ".", "g", "z", "_", "1">>, <<"\n">>}
FileNames == {Flatten(t) : t \in SeqsUpTo(NameTokens, MaxTokens) \ {<<>>}}

LinePool == {<<>>, <<"a">>, <<"a", "b">>, <<"c">>, <<" ", "b", " ">>}
PatternPool == {<<>>, <<"a">>, <<"b">>, <<"a", "b">>}
SearchPaths == {<<"a", ".", "l", "o", "g">>, <<"b", ".", "g", "z">>}

TS == <<"2", "0", "2", "5", "-", "0", "7", "-", "1", "4", "-",
        "0", "8", ".", "2", "5", ".", "2", "2", ".", "5">>
TsAlphabet == {"7", "-", ".", "x", "\n"}
TsSuffixes == {<<>>, <<"3">>, <<"x">>, <<"\n">>, <<"3", "\n">>, <<"\n", "\n">>}
SearchStrings ==
    {[i \in 1..Len(TS) |-> IF i = k THEN c ELSE TS[i]] \o suffix :
        k \in 1..Len(TS), c \in TsAlphabet, suffix \in TsSuffixes}
    \cup {SubSeq(TS, 1, k) : k \in 0..Len(TS)}

(***************************************************************************)
(* The classifiers alone.                                                  *)
(***************************************************************************)
IdleMain ==
    /\ pc = "idle"
    /\ input_kind = "invalid"
    /\ input_plain = {}
    /\ input_archives = <<>>
    /\ search_string = <<>>
    /\ use_timestamp_format = FALSE
    /\ output_dir = NoOutput
    /\ temp_dir = NoTemp
    /\ tar_gz_files = <<>>
    /\ log_files = <<>>
    /\ compressed_log_files = <<>>
    /\ all_log_files = <<>>
    /\ search_patterns = <<>>
    /\ search_index = 1
    /\ results = <<>>
    /\ files_with_matches = <<>>
    /\ total_matches = 0
    /\ report = <<>>

IdleClassify ==
    cl_dir = <<>> /\ cl_logs = <<>> /\ cl_comp = <<>> /\ cl_done = FALSE

IdleExpand ==
    ts_s = <<>> /\ ts_tf = FALSE /\ ts_patterns = <<>> /\ ts_done = FALSE

IdleSearch ==
    /\ sf_path = <<>>
    /\ sf_file = [lines |-> <<>>, failAt |-> NoFail]
    /\ sf_pats = <<>>
    /\ sf_matches = <<>>
    /\ sf_done = FALSE

InitClassify ==
    /\ IdleMain /\ IdleExpand /\ IdleSearch
    /\ cl_dir \in SeqsUpTo(FileNames, MaxDirFiles)
    /\ cl_logs = <<>>
    /\ cl_comp = <<>>
    /\ cl_done = FALSE

Classify ==
    /\ ~cl_done
    /\ cl_logs' = find_log_files(cl_dir)
    /\ cl_comp' = find_compressed_log_files(cl_dir)
    /\ cl_done' = TRUE
    /\ UNCHANGED <<cl_dir, mainVars, tsVars, sfVars>>

NextClassify == Classify

SpecClassify == InitClassify /\ [][NextClassify]_vars

(***************************************************************************)
(* The timestamp expansion alone.                                          *)
(***************************************************************************)
InitExpand ==
    /\ IdleMain /\ IdleClassify /\ IdleSearch
    /\ ts_s \in SearchStrings
    /\ ts_tf \in BOOLEAN
    /\ ts_patterns = <<>>
    /\ ts_done = FALSE

Expand ==
    /\ ~ts_done
    /\ ts_patterns' = SearchPatterns(ts_s, ts_tf)
    /\ ts_done' = TRUE
    /\ UNCHANGED <<ts_s, ts_tf, mainVars, clVars, sfVars>>

NextExpand == Expand

SpecExpand == InitExpand /\ [][NextExpand]_vars

(***************************************************************************)
(* search_in_file alone.                                                   *)
(***************************************************************************)
InitSearch ==
    /\ IdleMain /\ IdleClassify /\ IdleExpand
    /\ sf_path \in SearchPaths
    /\ \E lines \in SeqsUpTo(LinePool, MaxLines) :
          \E failAt \in {NoFail} \cup 0..Len(lines) :
              sf_file = [lines |-> lines, failAt |-> failAt]
    /\ sf_pats \in SeqsUpTo(PatternPool, MaxPatterns)
    /\ sf_matches = <<>>
    /\ sf_done = FALSE

SearchFile ==
    /\ ~sf_done
    /\ sf_matches' = search_in_file(sf_path, sf_file, sf_pats)
    /\ sf_done' = TRUE
    /\ UNCHANGED <<sf_path, sf_file, sf_pats, mainVars, clVars, tsVars>>

NextSearch == SearchFile

SpecSearch == InitSearch /\ [][NextSearch]_vars

(***************************************************************************)
(* main(): its inputs in the model.                                        *)
(***************************************************************************)
ALog == <<"a", ".", "l", "o", "g">>
BGz == <<"b", ".", "g", "z">>
CRotated == <<"c", ".", "l", "o", "g", ".", "g", "z", "_", "1", ".", "l", "o", "g", "_", "2">>
NTxt == <<"n", ".", "t", "x", "t">>
\* os.walk of the extraction directory lists its files in this order
WalkOrder == <<ALog, BGz, CRotated, NTxt>>
MainNames == Range(WalkOrder)

ISO == <<"2", "0", "2", "5", "-", "0", "7", "-", "1", "4", "T",
         "0", "8", ":", "2", "5", ":", "2", "2">>
\* read whole: two lines with "b", one with the ISO form of TS
FileWhole == [lines |-> <<<<"b", " ">>, ISO, <<"a", "b">>>>, failAt |-> NoFail]
\* the read raises after the first line (a truncated gzip stream, an I/O error)
FileBreaks == [lines |-> <<<<"b">>, <<"b">>>>, failAt |-> 1]
\* the open raises (not a gzip file, permission denied)
FileUnreadable == [lines |-> <<<<"b">>>>, failAt |-> 0]
MainFiles == {FileWhole, FileBreaks, FileUnreadable}

Members == [name : MainNames, file : MainFiles]
\* a nested .tar.gz archive: whether tarfile extracts it whole, and its members
\* (the member of an archive that fails reads whole or not at all)
ArchivePool ==
    [ok : {TRUE}, members : {<<m>> : m \in Members}]
    \cup [ok : {FALSE},
          members : {<<m>> : m \in {x \in Members : x.file # FileBreaks}}]
PlainChoices ==
    {{}} \cup {{[under_extraction |-> u, name |-> ALog, file |-> FileWhole]} :
                  u \in BOOLEAN}
MainSearchStrings == {<<"b">>, TS}

Put(dir, name, entry) ==
    [n \in DOMAIN dir \cup {name} |-> IF n = name THEN entry ELSE dir[n]]

\* tar.extractall(extract_to) of the first k members of a nested archive
RECURSIVE ExtractMembers(_, _, _, _)
ExtractMembers(dir, members, k, origin) ==
    IF k = 0 THEN dir
    ELSE Put(ExtractMembers(dir, members, k - 1, origin), members[k].name,
             [file |-> members[k].file, origin |-> origin])

\* the top-level archive extracted into temp_dir: its members under
\* extracted_content/ land in what becomes the extraction directory
ExtractTop(plain) ==
    [exists |-> TRUE,
     top |-> {f.name : f \in {g \in plain : ~g.under_extraction}},
     extraction_dir |->
        [n \in {f.name : f \in {g \in plain : g.under_extraction}} |->
            [file |-> (CHOOSE f \in plain : f.under_extraction /\ f.name = n).file,
             origin |-> "top"]]]

\* os.walk(extraction_dir)
Walk(dir) == SelectSeq(WalkOrder, LAMBDA n : n \in DOMAIN dir)

\* the with block left without removing the directory when an exception leaves it
ExitTempLeak(temp, how) == IF how = "exception" THEN temp ELSE NoTemp

\* TemporaryDirectory.__exit__: the directory is removed however the block is left
ExitTemp(temp, how) == NoTemp

\* except Exception as e: print(...): the loop goes on
AfterExtractError == "extract"

\* the else branch without its return: main() goes on to step 2
AfterInvalidInputFallThrough == "find"

\* print(f"Error: ..."); return
AfterInvalidInput == "aborted"

\* results[rel_path] = matches
DictPut(d, k, v) ==
    IF \E i \in 1..Len(d) : d[i].path = k
    THEN [i \in 1..Len(d) |-> IF d[i].path = k THEN [path |-> k, matches |-> v] ELSE d[i]]
    ELSE Append(d, [path |-> k, matches |-> v])

\* the file_type tag of a section of result.txt
SectionType(file_path) ==
    IF Contains(DotGz, file_path) \/ Contains(DotLogDotGzUnderscore, file_path)
    THEN "compressed" ELSE "uncompressed"

(***************************************************************************)
(* main(): the run.                                                        *)
(***************************************************************************)
Init ==
    /\ IdleClassify /\ IdleExpand /\ IdleSearch
    /\ pc = "start"
    /\ input_kind \in {"tar", "bad_tar", "dir", "invalid"}
    /\ input_plain \in PlainChoices
    /\ input_archives \in SeqsUpTo(ArchivePool, MaxArchives)
    /\ search_string \in MainSearchStrings
    /\ use_timestamp_format \in BOOLEAN
    /\ output_dir \in {NoOutput, OldOutput}
    /\ temp_dir = NoTemp
    /\ tar_gz_files = <<>>
    /\ log_files = <<>>
    /\ compressed_log_files = <<>>
    /\ all_log_files = <<>>
    /\ search_patterns = <<>>
    /\ search_index = 1
    /\ results = <<>>
    /\ files_with_matches = <<>>
    /\ total_matches = 0
    /\ report = <<>>

pureVars == <<clVars, tsVars, sfVars>>
inputVars == <<input_kind, input_plain, input_archives, search_string,
               use_timestamp_format>>
searchVars == <<search_index, results, files_with_matches, total_matches>>
listVars == <<log_files, compressed_log_files, all_log_files>>

\* if os.path.exists(output_dir): shutil.rmtree(output_dir); os.makedirs(...)
CreateOutput ==
    /\ pc = "start"
    /\ output_dir' = Skeleton
    /\ pc' = "enter"
    /\ UNCHANGED <<inputVars, temp_dir, tar_gz_files, listVars, search_patterns,
                   searchVars, report, pureVars>>

\* with tempfile.TemporaryDirectory() as temp_dir:
EnterTemp ==
    /\ pc = "enter"
    /\ temp_dir' = [exists |-> TRUE, top |-> {}, extraction_dir |-> EmptyDir]
    /\ pc' = "input"
    /\ UNCHANGED <<inputVars, output_dir, tar_gz_files, listVars, search_patterns,
                   searchVars, report, pureVars>>

\* step 1, a .tar file that tarfile extracts
HandleInputTar ==
    /\ pc = "input"
    /\ input_kind = "tar"
    /\ temp_dir' = ExtractTop(input_plain)
    /\ pc' = "find"
    /\ UNCHANGED <<inputVars, output_dir, tar_gz_files, listVars, search_patterns,
                   searchVars, report, pureVars>>

\* step 1, a .tar file on which extract_tar_file raises: the exception leaves main()
HandleInputBadTar ==
    /\ pc = "input"
    /\ input_kind = "bad_tar"
    /\ temp_dir' = ExitTemp(temp_dir, "exception")
    /\ pc' = "crashed"
    /\ UNCHANGED <<inputVars, output_dir, tar_gz_files, listVars, search_patterns,
                   searchVars, report, pureVars>>

\* step 1, a directory: work_dir = input_path
HandleInputDir ==
    /\ pc = "input"
    /\ input_kind = "dir"
    /\ pc' = "find"
    /\ UNCHANGED <<inputVars, output_dir, temp_dir, tar_gz_files, listVars,
                   search_patterns, searchVars, report, pureVars>>

\* step 1, anything else: the error is printed and main() returns
HandleInputInvalid ==
    /\ pc = "input"
    /\ input_kind = "invalid"
    /\ pc' = AfterInvalidInput
    /\ temp_dir' = IF pc' = "aborted" THEN ExitTemp(temp_dir, "return") ELSE temp_dir
    /\ UNCHANGED <<inputVars, output_dir, tar_gz_files, listVars, search_patterns,
                   searchVars, report, pureVars>>

\* step 2: tar_gz_files = find_tar_gz_files(work_dir); os.makedirs(extraction_dir)
FindTarGz ==
    /\ pc = "find"
    /\ tar_gz_files' = [i \in 1..Len(input_archives) |-> i]
    /\ pc' = "extract"
    /\ UNCHANGED <<inputVars, output_dir, temp_dir, listVars, search_patterns,
                   searchVars, report, pureVars>>

\* step 2, one turn of the loop: the archive is extracted whole
ExtractOk ==
    /\ pc = "extract"
    /\ tar_gz_files # <<>>
    /\ LET i == Head(tar_gz_files)
           archive == input_archives[i]
       IN /\ archive.ok
          /\ temp_dir' = [temp_dir EXCEPT !.extraction_dir =
                 ExtractMembers(@, archive.members, Len(archive.members), i)]
    /\ tar_gz_files' = Tail(tar_gz_files)
    /\ UNCHANGED <<pc, inputVars, output_dir, listVars, search_patterns,
                   searchVars, report, pureVars>>

\* step 2, one turn of the loop: extract_tar_file raises after k members
ExtractFails ==
    /\ pc = "extract"
    /\ tar_gz_files # <<>>
    /\ LET i == Head(tar_gz_files)
           archive == input_archives[i]
       IN /\ ~archive.ok
          /\ \E k \in 0..Len(archive.members) :
                temp_dir' = [temp_dir EXCEPT !.extraction_dir =
                    ExtractMembers(@, archive.members, k, i)]
    /\ tar_gz_files' = Tail(tar_gz_files)
    /\ pc' = AfterExtractError
    /\ UNCHANGED <<inputVars, output_dir, listVars, search_patterns,
                   searchVars, report, pureVars>>

\* step 3
FindLogs ==
    /\ pc = "extract"
    /\ tar_gz_files = <<>>
    /\ log_files' = find_log_files(Walk(temp_dir.extraction_dir))
    /\ compressed_log_files' = find_compressed_log_files(Walk(temp_dir.extraction_dir))
    /\ all_log_files' = log_files' \o compressed_log_files'
    /\ pc' = "patterns"
    /\ UNCHANGED <<inputVars, output_dir, temp_dir, tar_gz_files, search_patterns,
                   searchVars, report, pureVars>>

\* the search patterns, from the -tf flag
DeterminePatterns ==
    /\ pc = "patterns"
    /\ search_patterns' = SearchPatterns(search_string, use_timestamp_format)
    /\ pc' = "search"
    /\ UNCHANGED <<inputVars, output_dir, temp_dir, tar_gz_files, listVars,
                   searchVars, report, pureVars>>

\* step 4, one turn of the loop: log_file is searched
SearchNext ==
    /\ pc = "search"
    /\ search_index <= Len(all_log_files)
    /\ LET log_file == all_log_files[search_index]
           matches == search_in_file(log_file, temp_dir.extraction_dir[log_file].file,
                                     search_patterns)
       IN IF matches # <<>>
          THEN /\ results' = DictPut(results, log_file, matches)
               /\ files_with_matches' = Append(files_with_matches, log_file)
               /\ total_matches' = total_matches + Len(matches)
          ELSE UNCHANGED <<results, files_with_matches, total_matches>>
    /\ search_index' = search_index + 1
    /\ UNCHANGED <<pc, inputVars, output_dir, temp_dir, tar_gz_files, listVars,
                   search_patterns, report, pureVars>>

\* step 5: copy_matching_files(files_with_matches, extracted_dir, extraction_dir)
CopyMatching ==
    /\ pc = "search"
    /\ search_index > Len(all_log_files)
    /\ output_dir' = [output_dir EXCEPT !.extracted_logs = Range(files_with_matches)]
    /\ pc' = "report"
    /\ UNCHANGED <<inputVars, temp_dir, tar_gz_files, listVars, search_patterns,
                   searchVars, report, pureVars>>

\* step 6: result.txt
WriteReport ==
    /\ pc = "report"
    /\ report' = <<[timestamp_mode |->
                        use_timestamp_format /\ is_timestamp_format(search_string),
                    patterns |-> search_patterns,
                    total_files |-> Len(all_log_files),
                    uncompressed |-> Len(log_files),
                    compressed |-> Len(compressed_log_files),
                    files_with_matches |-> Len(files_with_matches),
                    total_matches |-> total_matches,
                    sections |-> [i \in 1..Len(results) |->
                        [file |-> results[i].path,
                         file_type |-> SectionType(results[i].path),
                         matches |-> Len(results[i].matches),
                         lines |-> results[i].matches]]]>>
    /\ output_dir' = [output_dir EXCEPT !.files = @ \cup {"result.txt"}]
    /\ pc' = "written"
    /\ UNCHANGED <<inputVars, temp_dir, tar_gz_files, listVars, search_patterns,
                   searchVars, pureVars>>

\* the end of the with block, and the summary printed after it
LeaveTemp ==
    /\ pc = "written"
    /\ temp_dir' = ExitTemp(temp_dir, "normal")
    /\ pc' = "done"
    /\ UNCHANGED <<inputVars, output_dir, tar_gz_files, listVars, search_patterns,
                   searchVars, report, pureVars>>

Next ==
    \/ CreateOutput
    \/ EnterTemp
    \/ HandleInputTar
    \/ HandleInputBadTar
    \/ HandleInputDir
    \/ HandleInputInvalid
    \/ FindTarGz
    \/ ExtractOk
    \/ ExtractFails
    \/ FindLogs
    \/ DeterminePatterns
    \/ SearchNext
    \/ CopyMatching
    \/ WriteReport
    \/ LeaveTemp

Spec == Init /\ [][Next]_vars

(***************************************************************************)
(* Claims about the functions checked alone.                               *)
(***************************************************************************)
Min(S) == CHOOSE x \in S : \A y \in S : x <= y

\* the lines of the file that contain at least one of the patterns
HitLines(lines, pats) ==
    {i \in 1..Len(lines) : \E j \in 1..Len(pats) : Contains(pats[j], lines[i])}

\* the earliest-listed pattern that occurs in the line
EarliestPattern(line, pats) ==
    pats[Min({j \in 1..Len(pats) : Contains(pats[j], line)})]

\* C1: when the whole file is read, search_in_file returns, in increasing line
\* order, exactly one record for each line containing at least one pattern and
\* none for any other line; the record carries the 1-based line number and the
\* earliest-listed pattern occurring in the line; the compressed and the
\* uncompressed code path return the same records.
C1_FirstMatchPerLine ==
    (sf_done /\ sf_file.failAt = NoFail) =>
        LET hits == HitLines(sf_file.lines, sf_pats)
        IN /\ Len(sf_matches) = Cardinality(hits)
           /\ \A k \in 1..Len(sf_matches) :
                 /\ sf_matches[k][1] \in hits
                 /\ k > 1 => sf_matches[k - 1][1] < sf_matches[k][1]
                 /\ sf_matches[k][3] =
                        EarliestPattern(sf_file.lines[sf_matches[k][1]], sf_pats)
           /\ sf_matches = ScanGz(sf_file, sf_pats, 1, <<>>)
           /\ sf_matches = ScanPlain(sf_file, sf_pats, 1, <<>>)

\* the example of the specification, ["foo BAR", "baz", "foo"] with ["foo", "BAR"],
\* read on the compressed path
C1_Witness ==
    /\ sf_done
    /\ is_compressed_file(sf_path)
    /\ sf_file = [lines |-> <<<<"a", "b">>, <<"c">>, <<"a">>>>, failAt |-> NoFail]
    /\ sf_pats = <<<<"a">>, <<"b">>>>
    /\ sf_matches = << <<1, <<"a", "b">>, <<"a">>>>, <<3, <<"a">>, <<"a">>>> >>

\* C2: the lists of find_log_files and find_compressed_log_files are disjoint and
\* no file whose name ends in .tar.gz is in either list.
C2_DisjointNoTarGz ==
    cl_done =>
        /\ Range(cl_logs) \cap Range(cl_comp) = {}
        /\ \A f \in Range(cl_logs) \cup Range(cl_comp) : ~EndsWith(f, DotTarGz)

\* C3: is_compressed_file(p) is true iff find_compressed_log_files lists p, so the
\* gzip path is taken for exactly the compressed logs and the plain path for
\* exactly the uncompressed logs.
C3_CompressedIffClassified ==
    cl_done =>
        /\ \A f \in Range(cl_dir) : is_compressed_file(f) <=> f \in Range(cl_comp)
        /\ \A f \in Range(cl_logs) : ~is_compressed_file(f)

\* YYYY-MM-DD-HH.mm.ss.<digits>, the whole string
HasTimestampShape(s) ==
    TimestampHead(s) /\ Len(s) >= 21 /\ AllDigits(s, 21, Len(s))

ExpectedPatterns(s) ==
    LET Y == SubSeq(s, 1, 4)
        M == SubSeq(s, 6, 7)
        D == SubSeq(s, 9, 10)
        date == SubSeq(s, 1, 10)
        h == SubSeq(s, 12, 13)
        m == SubSeq(s, 15, 16)
        sec == SubSeq(s, 18, 19)
        colons == h \o <<":">> \o m \o <<":">> \o sec
    IN <<s,
         date \o <<"T">> \o colons,
         date \o <<" ">> \o SubSeq(s, 12, 19),
         date \o <<" ">> \o colons,
         Y \o M \o D \o h \o m \o sec,
         M \o <<"/">> \o D \o <<"/">> \o Y \o <<" ">> \o colons>>

\* C4: the pattern set is non-empty, starts with the search string and has no
\* duplicates; with the flag set and a string of the shape
\* YYYY-MM-DD-HH.mm.ss.<digits> it is the six formats in order; in every other
\* case it is the single-element list of the search string.
C4_PatternSet ==
    ts_done =>
        /\ Len(ts_patterns) >= 1
        /\ ts_patterns[1] = ts_s
        /\ \A i, j \in 1..Len(ts_patterns) : ts_patterns[i] = ts_patterns[j] => i = j
        /\ ts_patterns = IF ts_tf /\ HasTimestampShape(ts_s)
                         THEN ExpectedPatterns(ts_s)
                         ELSE <<ts_s>>

(***************************************************************************)
(* Claims about main().                                                    *)
(***************************************************************************)
Terminal == {"done", "aborted", "crashed"}
\* the search loop has ended
Searched ==
    \/ pc = "search" /\ search_index > Len(all_log_files)
    \/ pc \in {"report", "written"}
\* the log files are classified
Classified == pc \in {"patterns", "search", "report", "written"}
Keys(d) == {d[i].path : i \in 1..Len(d)}
Lookup(d, k) == (CHOOSE i \in 1..Len(d) : d[i].path = k)

RECURSIVE Sum(_)
Sum(s) == IF s = <<>> THEN 0 ELSE Head(s) + Sum(Tail(s))

\* the files of the extraction directory on which the read raises
FailingFiles ==
    {n \in DOMAIN temp_dir.extraction_dir :
        temp_dir.extraction_dir[n].file.failAt # NoFail}

\* C5: a file on which the open or the read raises, at the open or after some
\* lines, yields zero match records: it is in no section of the report, is not
\* copied and adds nothing to the totals; the run goes on with the other files.
C5_FailedFileYieldsNothing ==
    /\ Searched =>
          /\ \A n \in FailingFiles :
                n \notin Keys(results) /\ n \notin Range(files_with_matches)
          /\ total_matches =
                Sum([i \in 1..Len(all_log_files) |->
                        IF all_log_files[i] \in FailingFiles THEN 0
                        ELSE Len(search_in_file(all_log_files[i],
                                 temp_dir.extraction_dir[all_log_files[i]].file,
                                 search_patterns))])
    /\ pc \in {"report", "written"} =>
          \A n \in FailingFiles : n \notin output_dir.extracted_logs
    /\ pc = "written" =>
          \A n \in FailingFiles :
              \A i \in 1..Len(report[1].sections) : report[1].sections[i].file # n

\* the archives that tarfile extracts whole
OkArchives == {i \in 1..Len(input_archives) : input_archives[i].ok}
ValidInput == input_kind \in {"tar", "dir"}

\* C6: when a nested archive fails to extract, the run does not abort: every
\* other archive, before and after it, is extracted, its log files are classified
\* and searched and their matches are in the report, and the run reaches the
\* report: it never stops before, and ends with result.txt.
C6_ExtractionFailureIsolated ==
    (\E j \in 1..Len(input_archives) : ~input_archives[j].ok) =>
        /\ ValidInput => pc \notin {"aborted", "crashed"}
        /\ (ValidInput /\ pc \notin Terminal) => ENABLED Next
        /\ (ValidInput /\ pc = "done") =>
              report # <<>> /\ "result.txt" \in output_dir.files
        /\ \A i \in OkArchives : \A k \in 1..Len(input_archives[i].members) :
              LET m == input_archives[i].members[k]
                  dir == temp_dir.extraction_dir
                  isLog == IsLogName(m.name) \/ IsCompressedLogName(m.name)
                  expected == search_in_file(m.name, m.file, search_patterns)
              IN /\ (pc = "extract" /\ i \notin Range(tar_gz_files)) =>
                       m.name \in DOMAIN dir
                 /\ Classified =>
                       /\ m.name \in DOMAIN dir
                       /\ isLog => m.name \in Range(all_log_files)
                 /\ (Searched /\ isLog /\ expected # <<>>) =>
                       /\ m.name \in Keys(results)
                       /\ results[Lookup(results, m.name)].matches = expected
                 /\ (pc = "written" /\ isLog /\ expected # <<>>) =>
                       \E s \in 1..Len(report[1].sections) :
                           /\ report[1].sections[s].file = m.name
                           /\ report[1].sections[s].lines = expected

\* C7: on every exit path the temporary directory no longer exists when main()
\* ends, and the output directory does.
C7_TempRemovedOnEveryExit ==
    pc \in Terminal => ~temp_dir.exists /\ output_dir.exists

\* main() left by the exception of a malformed top-level tar
C7_Witness ==
    /\ pc = "crashed"
    /\ input_kind = "bad_tar"
    /\ ~temp_dir.exists
    /\ output_dir.exists

\* C8: when input_path is neither a valid top-level archive nor a directory, the
\* run stops before any extraction, classification or search: result.txt is never
\* written, nothing is copied, and the output directory is the empty skeleton,
\* whatever it held before.
C8_InvalidInputAborts ==
    input_kind \in {"invalid", "bad_tar"} =>
        /\ pc \in {"start", "enter", "input", "aborted", "crashed"}
        /\ report = <<>>
        /\ temp_dir.extraction_dir = EmptyDir
        /\ tar_gz_files = <<>> /\ all_log_files = <<>> /\ results = <<>>
        /\ pc # "start" => output_dir = Skeleton
        /\ input_kind = "invalid" => pc # "crashed"
        /\ (input_kind = "invalid" /\ pc # "aborted") => ENABLED Next

C8_Witness ==
    /\ input_kind = "invalid"
    /\ pc = "aborted"
    /\ input_archives # <<>>
    /\ output_dir = Skeleton
    /\ report = <<>>

\* C9: the counts of result.txt are truthful: the files searched are counted
\* once each and are the uncompressed plus the compressed ones; the files with
\* matches are the distinct files with a match, the sections and the files
\* copied; the total is the sum of the sections' match counts.
C9_TruthfulCounts ==
    pc = "done" =>
        LET r == report[1]
        IN /\ r.total_files = Cardinality(Range(all_log_files))
           /\ r.total_files = r.uncompressed + r.compressed
           /\ r.files_with_matches = Cardinality(Range(files_with_matches))
           /\ r.files_with_matches = Len(r.sections)
           /\ r.files_with_matches = Cardinality(output_dir.extracted_logs)
           /\ r.total_matches = Sum([i \in 1..Len(r.sections) |-> r.sections[i].matches])

\* C10: the files classified and searched are the log-named files that
\* successfully extracted nested archives put in the extraction directory; a log
\* file of the input outside every nested archive is never searched.
C10_OnlyNestedArchiveFiles ==
    Classified =>
        /\ Range(all_log_files) =
              {n \in DOMAIN temp_dir.extraction_dir :
                  IsLogName(n) \/ IsCompressedLogName(n)}
        /\ \A n \in Range(all_log_files) :
              temp_dir.extraction_dir[n].origin \in OkArchives

====
